---- MODULE Spec2Model ----
(***************************************************************************)
(* Model of the ESLint rule require-take-until-destroyed                   *)
(* (lib/rules/require-take-until-destroyed.js): the two alias sets kept by *)
(* create(context), the ImportDeclaration visitor that grows them, and the *)
(* subscribe-call visitor that locates the pipe call and classifies its    *)
(* arguments.  AST nodes are records shaped like ESTree nodes; identifier  *)
(* names are sequences of characters so that String.includes is a real     *)
(* substring search.                                                       *)
(***************************************************************************)
EXTENDS Integers, Sequences, FiniteSets, TLC

VARIABLES
    takeUntilDestroyedAliases,  \* Set of local names (create, line 19)
    rxjsTakeOperatorAliases,    \* Set of local names (create, line 23)
    node,                       \* the node the traversal visited last
    ancestors,                  \* the nodes enclosing it, outermost first
    pos,                        \* how many nodes of the file were visited
    reports,                    \* the context.report calls made so far
    text,                       \* the source text the fixer of the last visit read
    fixes,                      \* the edits the reports of the last visit carry
    earlierAliases              \* names the files analysed before registered

vars == <<takeUntilDestroyedAliases, rxjsTakeOperatorAliases, node, ancestors, pos,
          reports, text, fixes, earlierAliases>>

----------------------------------------------------------------------------
(* Bounds of the model *)

\* nodes the traversal hands to the rule in one file
MaxNodes == 3
\* arguments of a pipe call
MaxArgs == 2

----------------------------------------------------------------------------
(* Identifier names, as character sequences *)

n_takeUntilDestroyed == <<"t","a","k","e","U","n","t","i","l","D","e","s","t","r","o","y","e","d">>
n_takeUntil == <<"t","a","k","e","U","n","t","i","l">>
n_takeWhile == <<"t","a","k","e","W","h","i","l","e">>
n_take == <<"t","a","k","e">>
n_takeLast == <<"t","a","k","e","L","a","s","t">>
n_tud == <<"t","u","d">>
n_map == <<"m","a","p">>
n_mapValue == <<"m","a","p","V","a","l","u","e">>
n_destroyRef == <<"d","e","s","t","r","o","y","R","e","f">>
n_unsubscribeAll == <<"u","n","s","u","b","s","c","r","i","b","e","A","l","l">>
n_takeHandler == <<"t","a","k","e","H","a","n","d","l","e","r">>
n_untilDestroyed == <<"u","n","t","i","l","D","e","s","t","r","o","y","e","d">>
n_TakeOnce == <<"T","a","k","e","O","n","c","e">>
n_destroyHelper == <<"d","e","s","t","r","o","y","H","e","l","p","e","r">>
n_destroy == <<"d","e","s","t","r","o","y">>
n_Destroy == <<"D","e","s","t","r","o","y">>
n_unsubscribe == <<"u","n","s","u","b","s","c","r","i","b","e">>
n_Unsubscribe == <<"U","n","s","u","b","s","c","r","i","b","e">>
n_subscribe == <<"s","u","b","s","c","r","i","b","e">>
n_pipe == <<"p","i","p","e">>
n_observable == <<"o","b","s","e","r","v","a","b","l","e">>
n_getObservable == <<"g","e","t","O","b","s","e","r","v","a","b","l","e">>
n_foo == <<"f","o","o">>
n_destroy_ == <<"d","e","s","t","r","o","y","$">>

\* String.prototype.includes: sub occurs in s as a contiguous run
Includes(s, sub) ==
    \E i \in 1..(Len(s) - Len(sub) + 1) : SubSeq(s, i, i + Len(sub) - 1) = sub

UpperChars == <<"A","B","C","D","E","F","G","H","I","J","K","L","M",
                "N","O","P","Q","R","S","T","U","V","W","X","Y","Z">>
LowerChars == <<"a","b","c","d","e","f","g","h","i","j","k","l","m",
                "n","o","p","q","r","s","t","u","v","w","x","y","z">>

\* String.prototype.toLowerCase
ToLowerCase(s) ==
    [i \in 1..Len(s) |->
        IF \E k \in 1..Len(UpperChars) : UpperChars[k] = s[i]
        THEN LowerChars[CHOOSE k \in 1..Len(UpperChars) : UpperChars[k] = s[i]]
        ELSE s[i]]

----------------------------------------------------------------------------
(* ESTree node shapes *)

Identifier(name) == [type |-> "Identifier", name |-> name]
ThisExpression == [type |-> "ThisExpression"]
ArrowFunctionExpression == [type |-> "ArrowFunctionExpression"]
ReturnStatement == [type |-> "ReturnStatement"]
Program == [type |-> "Program"]
MemberExpression(object, name) ==
    [type |-> "MemberExpression", object |-> object, property |-> Identifier(name)]
CallExpression(callee, arguments) ==
    [type |-> "CallExpression", callee |-> callee, arguments |-> arguments]
ImportSpecifier(imported, local) ==
    [type |-> "ImportSpecifier", imported |-> Identifier(imported), local |-> Identifier(local)]
ImportDefaultSpecifier(local) ==
    [type |-> "ImportDefaultSpecifier", local |-> Identifier(local)]
ImportNamespaceSpecifier(local) ==
    [type |-> "ImportNamespaceSpecifier", local |-> Identifier(local)]
ImportDeclaration(source, specifiers) ==
    [type |-> "ImportDeclaration", source |-> [value |-> source], specifiers |-> specifiers]

\* a property that is present on the node (JavaScript truthiness of node.f)
Has(n, f) == f \in DOMAIN n

\* JavaScript null, as returned by findPipeCallBeforeSubscribe
NULL == [type |-> "null"]

----------------------------------------------------------------------------
(* create(context): the rule's constants and per-file state *)

takeUntilDestroyedSeed == {n_takeUntilDestroyed}
rxjsTakeOperators == {n_takeUntil, n_takeWhile, n_take, n_takeLast}
messageId == "missingTakeUntilDestroyed"

\* new Set(['takeUntilDestroyed'])
InitialTakeUntilDestroyedAliases == takeUntilDestroyedSeed

\* a set built empty instead of from the operator names
InitialRxjsTakeOperatorAliases_empty == {}

\* new Set([...rxjsTakeOperators])
InitialRxjsTakeOperatorAliases == rxjsTakeOperators

----------------------------------------------------------------------------
(* ImportDeclaration(node) *)

\* registers the exported name instead of the local one
RECURSIVE AddTakeUntilDestroyedAliases_imported(_, _)
AddTakeUntilDestroyedAliases_imported(specifiers, aliases) ==
    IF specifiers = <<>> THEN aliases
    ELSE LET specifier == Head(specifiers) IN
         AddTakeUntilDestroyedAliases_imported(Tail(specifiers),
            IF /\ specifier.type = "ImportSpecifier"
               /\ Has(specifier, "imported")
               /\ specifier.imported.name = n_takeUntilDestroyed
            THEN aliases \cup {specifier.imported.name}
            ELSE aliases)

\* first forEach: specifiers of an import from '@angular/core/rxjs-interop'
RECURSIVE AddTakeUntilDestroyedAliases(_, _)
AddTakeUntilDestroyedAliases(specifiers, aliases) ==
    IF specifiers = <<>> THEN aliases
    ELSE LET specifier == Head(specifiers) IN
         AddTakeUntilDestroyedAliases(Tail(specifiers),
            IF /\ specifier.type = "ImportSpecifier"
               /\ Has(specifier, "imported")
               /\ specifier.imported.name = n_takeUntilDestroyed
            THEN aliases \cup {specifier.local.name}
            ELSE aliases)

\* registers the exported name instead of the local one
RECURSIVE AddRxjsTakeOperatorAliases_imported(_, _)
AddRxjsTakeOperatorAliases_imported(specifiers, aliases) ==
    IF specifiers = <<>> THEN aliases
    ELSE LET specifier == Head(specifiers) IN
         AddRxjsTakeOperatorAliases_imported(Tail(specifiers),
            IF /\ specifier.type = "ImportSpecifier"
               /\ Has(specifier, "imported")
               /\ specifier.imported.name \in rxjsTakeOperators
            THEN aliases \cup {specifier.imported.name}
            ELSE aliases)

\* second forEach: specifiers of an import from 'rxjs' or 'rxjs/operators'
RECURSIVE AddRxjsTakeOperatorAliases(_, _)
AddRxjsTakeOperatorAliases(specifiers, aliases) ==
    IF specifiers = <<>> THEN aliases
    ELSE LET specifier == Head(specifiers) IN
         AddRxjsTakeOperatorAliases(Tail(specifiers),
            IF /\ specifier.type = "ImportSpecifier"
               /\ Has(specifier, "imported")
               /\ specifier.imported.name \in rxjsTakeOperators
            THEN aliases \cup {specifier.local.name}
            ELSE aliases)

\* starts again from the seed at every import declaration
ImportedTakeUntilDestroyedAliases_reset(n, aliases) ==
    IF n.source.value = "@angular/core/rxjs-interop"
    THEN AddTakeUntilDestroyedAliases(n.specifiers, takeUntilDestroyedSeed)
    ELSE aliases

ImportedTakeUntilDestroyedAliases(n, aliases) ==
    IF n.source.value = "@angular/core/rxjs-interop"
    THEN AddTakeUntilDestroyedAliases(n.specifiers, aliases)
    ELSE aliases

\* an import visitor that takes the four operators from any module
ImportedRxjsTakeOperatorAliases_anySource(n, aliases) ==
    AddRxjsTakeOperatorAliases(n.specifiers, aliases)

ImportedRxjsTakeOperatorAliases(n, aliases) ==
    IF n.source.value = "rxjs" \/ n.source.value = "rxjs/operators"
    THEN AddRxjsTakeOperatorAliases(n.specifiers, aliases)
    ELSE aliases

----------------------------------------------------------------------------
(* The helpers of the subscribe visitor *)

\* a locator that walks down the whole chain of calls to the first pipe call
RECURSIVE findPipeCallBeforeSubscribe_wholeChain(_)
findPipeCallBeforeSubscribe_wholeChain(objectExpr) ==
    IF objectExpr = NULL THEN NULL
    ELSE IF /\ objectExpr.type = "CallExpression"
            /\ Has(objectExpr, "callee")
            /\ objectExpr.callee.type = "MemberExpression"
            /\ Has(objectExpr.callee, "property")
         THEN IF objectExpr.callee.property.name = n_pipe
              THEN objectExpr
              ELSE findPipeCallBeforeSubscribe_wholeChain(objectExpr.callee.object)
         ELSE NULL

\* a locator that takes any call for the pipe call
findPipeCallBeforeSubscribe_anyCall(objectExpr) ==
    IF objectExpr = NULL THEN NULL
    ELSE IF objectExpr.type = "CallExpression"
         THEN objectExpr
         ELSE NULL

findPipeCallBeforeSubscribe(objectExpr) ==
    IF objectExpr = NULL THEN NULL
    ELSE IF /\ objectExpr.type = "CallExpression"
            /\ Has(objectExpr, "callee")
            /\ objectExpr.callee.type = "MemberExpression"
            /\ Has(objectExpr.callee, "property")
            /\ objectExpr.callee.property.name = n_pipe
         THEN objectExpr
         ELSE NULL

\* the name test applied to a bare identifier argument
IdentifierNameHint(name) ==
    \/ Includes(name, n_destroy)
    \/ Includes(name, n_Destroy)
    \/ Includes(name, n_unsubscribe)
    \/ Includes(name, n_Unsubscribe)
    \/ Includes(name, n_take)

\* a member rule that wants the member's object to be a plain name
ArgIsTakeOperator_namedObject(arg, destroyAliases, takeAliases) ==
    IF /\ arg.type = "CallExpression"
       /\ Has(arg, "callee")
       /\ arg.callee.type = "Identifier"
       /\ (arg.callee.name \in destroyAliases \/ arg.callee.name \in takeAliases)
    THEN TRUE
    ELSE IF arg.type = "Identifier"
    THEN IdentifierNameHint(arg.name)
    ELSE IF /\ arg.type = "CallExpression"
            /\ Has(arg, "callee")
            /\ arg.callee.type = "MemberExpression"
            /\ arg.callee.object.type = "Identifier"
            /\ Has(arg.callee, "property")
            /\ (\/ arg.callee.property.name \in destroyAliases
                \/ arg.callee.property.name \in takeAliases)
    THEN TRUE
    ELSE FALSE

\* a name test put to every name in sight: the callee of a call and the
\* property of a member access as well as a bare identifier
ArgIsTakeOperator_anyName(arg, destroyAliases, takeAliases) ==
    IF /\ arg.type = "CallExpression"
       /\ Has(arg, "callee")
       /\ arg.callee.type = "Identifier"
       /\ (\/ arg.callee.name \in destroyAliases
           \/ arg.callee.name \in takeAliases
           \/ IdentifierNameHint(arg.callee.name))
    THEN TRUE
    ELSE IF arg.type = "Identifier"
    THEN IdentifierNameHint(arg.name)
    ELSE IF arg.type = "MemberExpression"
    THEN IdentifierNameHint(arg.property.name)
    ELSE IF /\ arg.type = "CallExpression"
            /\ Has(arg, "callee")
            /\ arg.callee.type = "MemberExpression"
            /\ Has(arg.callee, "property")
            /\ (\/ arg.callee.property.name \in destroyAliases
                \/ arg.callee.property.name \in takeAliases)
    THEN TRUE
    ELSE FALSE

\* looks a bare identifier up in the alias sets as well
ArgIsTakeOperator_identifierAlias(arg, destroyAliases, takeAliases) ==
    IF /\ arg.type = "CallExpression"
       /\ Has(arg, "callee")
       /\ arg.callee.type = "Identifier"
       /\ (arg.callee.name \in destroyAliases \/ arg.callee.name \in takeAliases)
    THEN TRUE
    ELSE IF arg.type = "Identifier"
    THEN \/ IdentifierNameHint(arg.name)
         \/ arg.name \in destroyAliases
         \/ arg.name \in takeAliases
    ELSE IF /\ arg.type = "CallExpression"
            /\ Has(arg, "callee")
            /\ arg.callee.type = "MemberExpression"
            /\ Has(arg.callee, "property")
            /\ (\/ arg.callee.property.name \in destroyAliases
                \/ arg.callee.property.name \in takeAliases)
    THEN TRUE
    ELSE FALSE

\* the callback handed to pipeCall.arguments.some
ArgIsTakeOperator(arg, destroyAliases, takeAliases) ==
    IF /\ arg.type = "CallExpression"
       /\ Has(arg, "callee")
       /\ arg.callee.type = "Identifier"
       /\ (arg.callee.name \in destroyAliases \/ arg.callee.name \in takeAliases)
    THEN TRUE
    ELSE IF arg.type = "Identifier"
    THEN IdentifierNameHint(arg.name)
    ELSE IF /\ arg.type = "CallExpression"
            /\ Has(arg, "callee")
            /\ arg.callee.type = "MemberExpression"
            /\ Has(arg.callee, "property")
            /\ (\/ arg.callee.property.name \in destroyAliases
                \/ arg.callee.property.name \in takeAliases)
    THEN TRUE
    ELSE FALSE

\* a scan that ends at the first bare identifier with the answer of the
\* name test, as a loop that returns from that branch would
checkForTakeOperatorsInPipe_untilIdentifier(pipeCall, destroyAliases, takeAliases) ==
    IF pipeCall = NULL \/ ~Has(pipeCall, "arguments") \/ Len(pipeCall.arguments) = 0
    THEN FALSE
    ELSE LET identifiers == {i \in 1..Len(pipeCall.arguments) :
                                pipeCall.arguments[i].type = "Identifier"}
             stop == IF identifiers = {} THEN Len(pipeCall.arguments)
                     ELSE CHOOSE i \in identifiers : \A k \in identifiers : i <= k
         IN \E i \in 1..stop :
                ArgIsTakeOperator(pipeCall.arguments[i], destroyAliases, takeAliases)

\* Array.every in place of Array.some
checkForTakeOperatorsInPipe_every(pipeCall, destroyAliases, takeAliases) ==
    IF pipeCall = NULL \/ ~Has(pipeCall, "arguments") \/ Len(pipeCall.arguments) = 0
    THEN FALSE
    ELSE \A i \in 1..Len(pipeCall.arguments) :
            ArgIsTakeOperator(pipeCall.arguments[i], destroyAliases, takeAliases)

\* looks at the first argument only
checkForTakeOperatorsInPipe_first(pipeCall, destroyAliases, takeAliases) ==
    IF pipeCall = NULL \/ ~Has(pipeCall, "arguments") \/ Len(pipeCall.arguments) = 0
    THEN FALSE
    ELSE ArgIsTakeOperator(pipeCall.arguments[1], destroyAliases, takeAliases)

checkForTakeOperatorsInPipe(pipeCall, destroyAliases, takeAliases) ==
    IF pipeCall = NULL \/ ~Has(pipeCall, "arguments") \/ Len(pipeCall.arguments) = 0
    THEN FALSE
    ELSE \E i \in 1..Len(pipeCall.arguments) :
            ArgIsTakeOperator(pipeCall.arguments[i], destroyAliases, takeAliases)

\* the helper of the earlier variant of the rule
isInsideSubscriptionCallback(enclosing) ==
    \E i \in 1..Len(enclosing) :
        /\ enclosing[i].type = "CallExpression"
        /\ Has(enclosing[i], "callee")
        /\ enclosing[i].callee.type = "MemberExpression"
        /\ Has(enclosing[i].callee, "property")
        /\ enclosing[i].callee.property.name = n_subscribe

\* the earlier variant of the visitor: call sites inside a return statement
\* or inside the callback of another subscribe call are skipped
SubscribeReports_skipEnclosed(n, enclosing, loc, destroyAliases, takeAliases) ==
    LET pipeCall == findPipeCallBeforeSubscribe(n.callee.object) IN
    IF \E i \in 1..Len(enclosing) : enclosing[i].type = "ReturnStatement"
    THEN << >>
    ELSE IF isInsideSubscriptionCallback(enclosing)
    THEN << >>
    ELSE IF pipeCall = NULL
    THEN << [loc |-> loc, messageId |-> messageId] >>
    ELSE IF ~checkForTakeOperatorsInPipe(pipeCall, destroyAliases, takeAliases)
         THEN << [loc |-> loc, messageId |-> messageId] >>
         ELSE << >>

\* returns without reporting when there is no pipe call
\* the visitor without the return that ends the branch of a missing pipe:
\* control falls through to the classifier, which is handed null
SubscribeReports_noReturn(n, enclosing, loc, destroyAliases, takeAliases) ==
    LET pipeCall == findPipeCallBeforeSubscribe(n.callee.object)
        first == IF pipeCall = NULL
                 THEN << [loc |-> loc, messageId |-> messageId] >>
                 ELSE << >>
        second == IF ~checkForTakeOperatorsInPipe(pipeCall, destroyAliases, takeAliases)
                  THEN << [loc |-> loc, messageId |-> messageId] >>
                  ELSE << >>
    IN first \o second

SubscribeReports_silentNoPipe(n, enclosing, loc, destroyAliases, takeAliases) ==
    LET pipeCall == findPipeCallBeforeSubscribe(n.callee.object) IN
    IF pipeCall = NULL
    THEN << >>
    ELSE IF ~checkForTakeOperatorsInPipe(pipeCall, destroyAliases, takeAliases)
         THEN << [loc |-> loc, messageId |-> messageId] >>
         ELSE << >>

\* the context.report calls one visit of the subscribe visitor makes; the
\* visitor does not look at the enclosing nodes
SubscribeReports(n, enclosing, loc, destroyAliases, takeAliases) ==
    LET pipeCall == findPipeCallBeforeSubscribe(n.callee.object) IN
    IF pipeCall = NULL
    THEN << [loc |-> loc, messageId |-> messageId] >>
    ELSE IF ~checkForTakeOperatorsInPipe(pipeCall, destroyAliases, takeAliases)
         THEN << [loc |-> loc, messageId |-> messageId] >>
         ELSE << >>

\* ---------------------------------------------------------------------------
\* The copy of the rule that is fixable: 'code'.  Its import visitor and its
\* chain locator are those above; its name test lower-cases the name first and
\* both of its reports carry a fix.
Fixable_IdentifierNameHint(name) ==
    LET lowerName == ToLowerCase(name) IN
    \/ Includes(lowerName, n_destroy)
    \/ Includes(lowerName, n_unsubscribe)
    \/ Includes(lowerName, n_take)

Fixable_ArgIsTakeOperator(arg, destroyAliases, takeAliases) ==
    IF /\ arg.type = "CallExpression"
       /\ Has(arg, "callee")
       /\ arg.callee.type = "Identifier"
       /\ (arg.callee.name \in destroyAliases \/ arg.callee.name \in takeAliases)
    THEN TRUE
    ELSE IF arg.type = "Identifier"
    THEN Fixable_IdentifierNameHint(arg.name)
    ELSE IF /\ arg.type = "CallExpression"
            /\ Has(arg, "callee")
            /\ arg.callee.type = "MemberExpression"
            /\ Has(arg.callee, "property")
            /\ (\/ arg.callee.property.name \in destroyAliases
                \/ arg.callee.property.name \in takeAliases)
    THEN TRUE
    ELSE FALSE

Fixable_checkForTakeOperatorsInPipe(pipeCall, destroyAliases, takeAliases) ==
    IF pipeCall = NULL \/ ~Has(pipeCall, "arguments") \/ Len(pipeCall.arguments) = 0
    THEN FALSE
    ELSE \E i \in 1..Len(pipeCall.arguments) :
            Fixable_ArgIsTakeOperator(pipeCall.arguments[i], destroyAliases, takeAliases)

Fixable_SubscribeReports(n, enclosing, loc, destroyAliases, takeAliases) ==
    LET pipeCall == findPipeCallBeforeSubscribe(n.callee.object) IN
    IF pipeCall = NULL
    THEN << [loc |-> loc, messageId |-> messageId] >>
    ELSE IF ~Fixable_checkForTakeOperatorsInPipe(pipeCall, destroyAliases, takeAliases)
         THEN << [loc |-> loc, messageId |-> messageId] >>
         ELSE << >>

\* sourceCode.getText(node): the characters of the node's range; ranges count
\* from 0 and exclude their end
getText(sourceText, range) == SubSeq(sourceText, range[1] + 1, range[2])

\* the edits a fixer returns
replaceText(range, replacement) == [range |-> range, text |-> replacement]
insertTextBeforeRange(range, inserted) ==
    [range |-> <<range[1], range[1]>>, text |-> inserted]

\* the spaces of the line the fix adds to a pipe call that has arguments
IndentWidth == 28

Spaces(k) == [i \in 1..k |-> " "]

\* `.pipe(takeUntilDestroyed())`
pipeTakeUntilDestroyedText ==
    <<".">> \o n_pipe \o <<"(">> \o n_takeUntilDestroyed \o <<"(", ")", ")">>

\* 'takeUntilDestroyed()'
takeUntilDestroyedCallText == n_takeUntilDestroyed \o <<"(", ")">>

\* ',\n                            takeUntilDestroyed()'
commaTakeUntilDestroyedCallText ==
    <<",", "\n">> \o Spaces(IndentWidth) \o takeUntilDestroyedCallText

\* a fix that rewrites the whole subscribe call instead of its receiver
Fixable_SubscribeFixes_wholeNode(n, nodeRange, objectRange, sourceText, destroyAliases, takeAliases) ==
    LET pipeCall == findPipeCallBeforeSubscribe(n.callee.object) IN
    IF pipeCall = NULL
    THEN LET objectText == getText(sourceText, objectRange) IN
         << replaceText(nodeRange, objectText \o pipeTakeUntilDestroyedText) >>
    ELSE IF ~Fixable_checkForTakeOperatorsInPipe(pipeCall, destroyAliases, takeAliases)
         THEN LET pipeCallEnd == objectRange[2] - 1
                  hasArguments == Has(pipeCall, "arguments") /\ Len(pipeCall.arguments) > 0
              IN IF ~hasArguments
                 THEN << insertTextBeforeRange(<<pipeCallEnd, pipeCallEnd>>,
                                               takeUntilDestroyedCallText) >>
                 ELSE << insertTextBeforeRange(<<pipeCallEnd, pipeCallEnd>>,
                                               commaTakeUntilDestroyedCallText) >>
         ELSE << >>

\* the fix functions of the two reports, run on the source text of the file;
\* objectRange is node.callee.object.range, which is pipeCall.range when a
\* pipe call was found, the locator returning that very node
Fixable_SubscribeFixes(n, nodeRange, objectRange, sourceText, destroyAliases, takeAliases) ==
    LET pipeCall == findPipeCallBeforeSubscribe(n.callee.object) IN
    IF pipeCall = NULL
    THEN LET objectText == getText(sourceText, objectRange) IN
         << replaceText(objectRange, objectText \o pipeTakeUntilDestroyedText) >>
    ELSE IF ~Fixable_checkForTakeOperatorsInPipe(pipeCall, destroyAliases, takeAliases)
         THEN LET pipeCallEnd == objectRange[2] - 1
                  hasArguments == Has(pipeCall, "arguments") /\ Len(pipeCall.arguments) > 0
              IN IF ~hasArguments
                 THEN << insertTextBeforeRange(<<pipeCallEnd, pipeCallEnd>>,
                                               takeUntilDestroyedCallText) >>
                 ELSE << insertTextBeforeRange(<<pipeCallEnd, pipeCallEnd>>,
                                               commaTakeUntilDestroyedCallText) >>
         ELSE << >>

----------------------------------------------------------------------------
(* The nodes the traversal can hand to the rule *)

Sources == {"@angular/core/rxjs-interop", "rxjs", "rxjs/operators", "lodash"}
CanonicalNames == {n_takeUntilDestroyed, n_takeUntil, n_takeWhile, n_take, n_takeLast}
Exported == CanonicalNames \cup {n_map}
Locals == {n_tud, n_mapValue}

Specifiers ==
    {ImportSpecifier(e, l) : e \in Exported, l \in Locals}
    \cup {ImportSpecifier(e, e) : e \in Exported}
    \cup {ImportDefaultSpecifier(l) : l \in Locals}
    \cup {ImportNamespaceSpecifier(l) : l \in Locals}

SpecifierLists ==
    {<< >>}
    \cup {<<sp>> : sp \in Specifiers}
    \cup {<<ImportSpecifier(n_map, n_map), sp>> : sp \in Specifiers}

ImportNodes == {ImportDeclaration(src, sps) : src \in Sources, sps \in SpecifierLists}

DirectCall(name) == CallExpression(Identifier(name), << >>)
MemberCall(name) == CallExpression(MemberExpression(Identifier(n_foo), name), << >>)

ArgPool ==
    {DirectCall(c) : c \in CanonicalNames \cup {n_tud, n_map, n_destroyHelper}}
    \cup {Identifier(v) : v \in {n_destroyRef, n_unsubscribeAll, n_takeHandler,
                                 n_untilDestroyed, n_TakeOnce, n_mapValue}}
    \cup {MemberCall(n_take), MemberCall(n_map),
          CallExpression(MemberExpression(ThisExpression, n_tud), << >>)}
    \cup {MemberExpression(ThisExpression, n_destroy_)}

ArgLists == UNION {[1..k -> ArgPool] : k \in 0..MaxArgs}

Observable == MemberExpression(ThisExpression, n_observable)
PipeCall(object, arguments) == CallExpression(MemberExpression(object, n_pipe), arguments)

Receivers ==
    {Observable, Identifier(n_observable),
     CallExpression(Identifier(n_getObservable), << >>),
     CallExpression(MemberExpression(PipeCall(Observable, <<DirectCall(n_take)>>), n_foo), << >>),
     PipeCall(PipeCall(Observable, <<DirectCall(n_take)>>), <<DirectCall(n_map)>>)}
    \cup {PipeCall(Observable, args) : args \in ArgLists}

SubscribeArguments == {<< >>, <<ArrowFunctionExpression>>}

SubscribeCall(receiver, arguments) ==
    CallExpression(MemberExpression(receiver, n_subscribe), arguments)

SubscribeNodes == {SubscribeCall(r, a) : r \in Receivers, a \in SubscribeArguments}

\* the source text of an expression, as the parser read it: the text a node
\* shape stands for, arguments separated by a comma and a space
RECURSIVE SourceText(_)
RECURSIVE ArgumentsText(_)
SourceText(n) ==
    CASE n.type = "Identifier" -> n.name
      [] n.type = "ThisExpression" -> <<"t","h","i","s">>
      [] n.type = "ArrowFunctionExpression" -> <<"(",")","=",">","{","}">>
      [] n.type = "MemberExpression" ->
            SourceText(n.object) \o <<".">> \o n.property.name
      [] n.type = "CallExpression" ->
            SourceText(n.callee) \o <<"(">> \o ArgumentsText(n.arguments) \o <<")">>

ArgumentsText(arguments) ==
    IF Len(arguments) = 0 THEN << >>
    ELSE IF Len(arguments) = 1 THEN SourceText(arguments[1])
    ELSE SourceText(Head(arguments)) \o <<",", " ">> \o ArgumentsText(Tail(arguments))

\* the same call written with a comma after its last argument
WithTrailingComma(callText) ==
    SubSeq(callText, 1, Len(callText) - 1) \o <<",", ")">>

\* the ways the receiver of a subscribe call is written in a file
ReceiverTexts(receiver) ==
    {SourceText(receiver)} \cup
    (IF receiver.type = "CallExpression" /\ Len(receiver.arguments) > 0
     THEN {WithTrailingComma(SourceText(receiver))}
     ELSE {})

\* what stands before the call site in its statement
StatementPrefix(enclosing) ==
    IF \E i \in 1..Len(enclosing) : enclosing[i].type = "ReturnStatement"
    THEN <<"r","e","t","u","r","n"," ">>
    ELSE << >>

\* the source texts of a subscribe call, with node.range and
\* node.callee.object.range in each
SourceTexts(n, enclosing) ==
    {LET before == StatementPrefix(enclosing)
         after == <<".">> \o n_subscribe \o <<"(">> \o ArgumentsText(n.arguments) \o <<")">>
     IN [text |-> before \o receiverText \o after,
         nodeRange |-> <<Len(before), Len(before) + Len(receiverText) + Len(after)>>,
         objectRange |-> <<Len(before), Len(before) + Len(receiverText)>>] :
     receiverText \in ReceiverTexts(n.callee.object)}

\* node shapes with fields missing, which the guards of the locator and of
\* the classifier are written for: a call without a callee, a member
\* expression without a property, a call without an argument list
CalleelessCall == [type |-> "CallExpression", arguments |-> << >>]
PropertylessMember == [type |-> "MemberExpression", object |-> Observable]
PipeCallWithoutArguments ==
    [type |-> "CallExpression", callee |-> MemberExpression(Observable, n_pipe)]

PartialArgPool ==
    {CalleelessCall, CallExpression(PropertylessMember, << >>),
     DirectCall(n_take), DirectCall(n_map), Identifier(n_mapValue)}

PartialArgLists == UNION {[1..k -> PartialArgPool] : k \in 0..MaxArgs}

PartialReceivers ==
    {NULL, CalleelessCall, CallExpression(PropertylessMember, << >>),
     PipeCallWithoutArguments}
    \cup {PipeCall(Observable, args) : args \in PartialArgLists}

PartialSubscribeNodes ==
    {SubscribeCall(r, a) : r \in PartialReceivers, a \in SubscribeArguments}

\* what may enclose a subscribe call: nothing but the program, a return
\* statement, or the callback of another subscribe call
AncestorLists ==
    {<<Program>>,
     <<Program, ReturnStatement>>,
     <<Program, SubscribeCall(Observable, <<ArrowFunctionExpression>>), ArrowFunctionExpression>>}

----------------------------------------------------------------------------
(* The state machine: one file after another, each walked node by node *)

Init ==
    /\ takeUntilDestroyedAliases = InitialTakeUntilDestroyedAliases
    /\ rxjsTakeOperatorAliases = InitialRxjsTakeOperatorAliases
    /\ node = Program
    /\ ancestors = << >>
    /\ pos = 0
    /\ reports = << >>
    /\ text = << >>
    /\ fixes = << >>
    /\ earlierAliases = {}

\* a rule object that builds its sets once and shares them between files
create_keepAliases ==
    /\ pos > 0
    /\ earlierAliases' = earlierAliases \cup
          ((takeUntilDestroyedAliases \cup rxjsTakeOperatorAliases)
              \ (takeUntilDestroyedSeed \cup rxjsTakeOperators))
    /\ text' = << >>
    /\ fixes' = << >>
    /\ node' = Program
    /\ ancestors' = << >>
    /\ pos' = 0
    /\ reports' = << >>
    /\ UNCHANGED <<takeUntilDestroyedAliases, rxjsTakeOperatorAliases>>

\* the lint engine starts the next file: create(context) builds fresh sets
\* and the new context has no reports; the sets of the file before are left
\* to the closures of its visitors
create ==
    /\ pos > 0
    /\ earlierAliases' = earlierAliases \cup
          ((takeUntilDestroyedAliases \cup rxjsTakeOperatorAliases)
              \ (takeUntilDestroyedSeed \cup rxjsTakeOperators))
    /\ text' = << >>
    /\ fixes' = << >>
    /\ takeUntilDestroyedAliases' = InitialTakeUntilDestroyedAliases
    /\ rxjsTakeOperatorAliases' = InitialRxjsTakeOperatorAliases
    /\ node' = Program
    /\ ancestors' = << >>
    /\ pos' = 0
    /\ reports' = << >>

\* between two nodes of the walk: the handler of the last one has returned
Between == node = Program

\* the traversal moves on from the node it visited; the rule has no exit
\* handlers, so nothing of the rule's state changes
leave ==
    /\ ~Between
    /\ node' = Program
    /\ ancestors' = << >>
    /\ text' = << >>
    /\ fixes' = << >>
    /\ UNCHANGED <<takeUntilDestroyedAliases, rxjsTakeOperatorAliases, pos, reports,
                   earlierAliases>>

\* an import visitor that goes back over the call sites behind it: once it
\* has registered a new alias the reports made so far are withdrawn
VisitImportDeclaration_revising(n) ==
    /\ Between
    /\ pos < MaxNodes
    /\ takeUntilDestroyedAliases' =
          ImportedTakeUntilDestroyedAliases(n, takeUntilDestroyedAliases)
    /\ rxjsTakeOperatorAliases' =
          ImportedRxjsTakeOperatorAliases(n, rxjsTakeOperatorAliases)
    /\ reports' =
          IF /\ ImportedTakeUntilDestroyedAliases(n, takeUntilDestroyedAliases)
                    = takeUntilDestroyedAliases
             /\ ImportedRxjsTakeOperatorAliases(n, rxjsTakeOperatorAliases)
                    = rxjsTakeOperatorAliases
          THEN reports
          ELSE << >>
    /\ node' = n
    /\ ancestors' = <<Program>>
    /\ pos' = pos + 1
    /\ UNCHANGED <<text, fixes, earlierAliases>>

VisitImportDeclaration(n) ==
    /\ Between
    /\ pos < MaxNodes
    /\ takeUntilDestroyedAliases' =
          ImportedTakeUntilDestroyedAliases(n, takeUntilDestroyedAliases)
    /\ rxjsTakeOperatorAliases' =
          ImportedRxjsTakeOperatorAliases(n, rxjsTakeOperatorAliases)
    /\ node' = n
    /\ ancestors' = <<Program>>
    /\ pos' = pos + 1
    /\ UNCHANGED <<reports, text, fixes, earlierAliases>>

\* a visitor whose classifier remembers the operators it met: the callee
\* names of the pipe's direct calls are added to the take aliases
VisitSubscribeCall_registering(n, enclosing) ==
    /\ Between
    /\ pos < MaxNodes
    /\ reports' = reports \o SubscribeReports(n, enclosing, pos + 1,
                      takeUntilDestroyedAliases, rxjsTakeOperatorAliases)
    /\ rxjsTakeOperatorAliases' =
          LET pipeCall == findPipeCallBeforeSubscribe(n.callee.object) IN
          IF pipeCall = NULL THEN rxjsTakeOperatorAliases
          ELSE rxjsTakeOperatorAliases \cup
               {pipeCall.arguments[i].callee.name :
                   i \in {k \in 1..Len(pipeCall.arguments) :
                            /\ pipeCall.arguments[k].type = "CallExpression"
                            /\ pipeCall.arguments[k].callee.type = "Identifier"}}
    /\ node' = n
    /\ ancestors' = enclosing
    /\ pos' = pos + 1
    /\ UNCHANGED <<takeUntilDestroyedAliases, text, fixes, earlierAliases>>

VisitSubscribeCall(n, enclosing) ==
    /\ Between
    /\ pos < MaxNodes
    /\ reports' = reports \o SubscribeReports(n, enclosing, pos + 1,
                        takeUntilDestroyedAliases, rxjsTakeOperatorAliases)
    /\ node' = n
    /\ ancestors' = enclosing
    /\ pos' = pos + 1
    /\ UNCHANGED <<takeUntilDestroyedAliases, rxjsTakeOperatorAliases, text, fixes,
                   earlierAliases>>

\* the subscribe visitor of the fixable copy: the report as above, and the
\* edit its fix function returns for the source text of the call site
Fixable_VisitSubscribeCall(n, enclosing, source) ==
    /\ Between
    /\ pos < MaxNodes
    /\ reports' = reports \o Fixable_SubscribeReports(n, enclosing, pos + 1,
                      takeUntilDestroyedAliases, rxjsTakeOperatorAliases)
    /\ text' = source.text
    /\ fixes' = Fixable_SubscribeFixes(n, source.nodeRange, source.objectRange, source.text,
                      takeUntilDestroyedAliases, rxjsTakeOperatorAliases)
    /\ node' = n
    /\ ancestors' = enclosing
    /\ pos' = pos + 1
    /\ UNCHANGED <<takeUntilDestroyedAliases, rxjsTakeOperatorAliases, earlierAliases>>

\* one pass of the rule over a file
Next ==
    \/ leave
    \/ Between /\ \E n \in ImportNodes : VisitImportDeclaration(n)
    \/ Between /\ \E n \in SubscribeNodes, enclosing \in AncestorLists :
                     VisitSubscribeCall(n, enclosing)

Spec == Init /\ [][Next]_vars

\* one file after another; the call sites of these files sit directly under
\* the program
NextFiles ==
    \/ create
    \/ leave
    \/ Between /\ \E n \in ImportNodes : VisitImportDeclaration(n)
    \/ Between /\ \E n \in SubscribeNodes : VisitSubscribeCall(n, <<Program>>)

SpecFiles == Init /\ [][NextFiles]_vars

\* one pass of the fixable copy of the rule over a file whose call sites
\* are returned
FixableAncestorLists == {<<Program, ReturnStatement>>}

NextFixable ==
    \/ leave
    \/ Between /\ \E n \in ImportNodes : VisitImportDeclaration(n)
    \/ Between /\ \E n \in SubscribeNodes, enclosing \in FixableAncestorLists :
                    \E source \in SourceTexts(n, enclosing) :
                        Fixable_VisitSubscribeCall(n, enclosing, source)

SpecFixable == Init /\ [][NextFixable]_vars

\* one pass of the rule over a file whose nodes may lack fields
NextPartial ==
    \/ leave
    \/ Between /\ \E n \in ImportNodes : VisitImportDeclaration(n)
    \/ Between /\ \E n \in PartialSubscribeNodes : VisitSubscribeCall(n, <<Program>>)

SpecPartial == Init /\ [][NextPartial]_vars

----------------------------------------------------------------------------
(* Vocabulary of the properties, stated on the visited node itself *)

\* the node visited last is a subscribe call site
AtSubscribe == node.type = "CallExpression"

\* the expression to the left of .subscribe
Receiver == node.callee.object

\* e has the form <expr>.pipe(...)
IsPipeCall(e) ==
    /\ e.type = "CallExpression"
    /\ e.callee.type = "MemberExpression"
    /\ e.callee.property.name = n_pipe

\* the visited call site is <expr>.pipe(...).subscribe(...)
AtPipedSubscribe == AtSubscribe /\ IsPipeCall(Receiver)

PipeArgs == Receiver.arguments

\* a diagnostic was reported for the call site visited last
Reported == \E i \in 1..Len(reports) : reports[i].loc = pos

AllAliases == takeUntilDestroyedAliases \cup rxjsTakeOperatorAliases

\* name(...) with name a bare identifier
IsDirectCallOf(a, names) ==
    a.type = "CallExpression" /\ a.callee.type = "Identifier" /\ a.callee.name \in names

\* obj.name(...)
IsMemberCallOf(a, names) ==
    /\ a.type = "CallExpression"
    /\ a.callee.type = "MemberExpression"
    /\ a.callee.property.name \in names

\* a bare identifier the name test accepts
IsHintedIdentifier(a) == a.type = "Identifier" /\ IdentifierNameHint(a.name)

MatchesSomeRule(a) ==
    \/ IsDirectCallOf(a, AllAliases)
    \/ IsMemberCallOf(a, AllAliases)
    \/ IsHintedIdentifier(a)

\* name contains one of "destroy", "unsubscribe", "take" in some letter case
ContainsHintIgnoringCase(name) ==
    \/ Includes(ToLowerCase(name), n_destroy)
    \/ Includes(ToLowerCase(name), n_unsubscribe)
    \/ Includes(ToLowerCase(name), n_take)

----------------------------------------------------------------------------
(* C1 *)

\* C1: a subscribe call site gets a diagnostic if and only if its receiver is
\* not a pipe call, or the pipe call has no arguments, or no argument is a
\* direct call of an aliased name, a member call of an aliased property name,
\* or a bare identifier accepted by the name test.
C1_DiagnosticIffNoRuleMatches ==
    AtSubscribe =>
        (Reported <=>
            \/ ~IsPipeCall(Receiver)
            \/ Len(PipeArgs) = 0
            \/ ~\E i \in 1..Len(PipeArgs) : MatchesSomeRule(PipeArgs[i]))

\* a pipe whose first argument matches no rule and whose second is a member
\* call of an aliased name: no diagnostic
C1_Witness ==
    /\ AtPipedSubscribe
    /\ Len(PipeArgs) = 2
    /\ ~MatchesSomeRule(PipeArgs[1])
    /\ IsMemberCallOf(PipeArgs[2], AllAliases)
    /\ ~Reported

----------------------------------------------------------------------------
(* C2 *)

\* C2: a subscribe call site whose receiver is not a pipe call always gets a
\* diagnostic, whatever is passed to subscribe and whatever imports were seen.
C2_NoPipeAlwaysReported ==
    (AtSubscribe /\ ~IsPipeCall(Receiver)) => Reported

\* no pipe, a callback passed to subscribe, and an alias registered before
C2_Witness ==
    /\ AtSubscribe
    /\ ~IsPipeCall(Receiver)
    /\ node.arguments # << >>
    /\ n_tud \in takeUntilDestroyedAliases
    /\ Reported

----------------------------------------------------------------------------
(* C3 *)

\* every identifier name the nodes of the model use as a binding or a callee
AnyName == CanonicalNames \cup Locals \cup {n_map, n_destroyHelper}

\* n is an import declaration from src with the named binding (e as l)
BindsAs(n, src, e, l) ==
    /\ n.type = "ImportDeclaration"
    /\ n.source.value = src
    /\ \E i \in 1..Len(n.specifiers) :
          /\ n.specifiers[i].type = "ImportSpecifier"
          /\ n.specifiers[i].imported.name = e
          /\ n.specifiers[i].local.name = l

\* n is <expr>.pipe(..., l(...), ...).subscribe(...)
PipedWithDirectCall(n, l) ==
    /\ n.type = "CallExpression"
    /\ IsPipeCall(n.callee.object)
    /\ \E i \in 1..Len(n.callee.object.arguments) :
          IsDirectCallOf(n.callee.object.arguments[i], {l})

\* the step hands the next node of the file to the rule
VisitStep == pos' = pos + 1

\* the step stays within the file being analysed
SameFileStep == pos' # 0

C3_Step ==
    /\ (VisitStep /\ node'.type = "ImportDeclaration") =>
          \A l \in AnyName :
              BindsAs(node', "@angular/core/rxjs-interop", n_takeUntilDestroyed, l)
                  => l \in takeUntilDestroyedAliases'
    /\ SameFileStep =>
          \A l \in takeUntilDestroyedAliases : l \in takeUntilDestroyedAliases'
    /\ (VisitStep /\ node'.type = "CallExpression") =>
          \A l \in takeUntilDestroyedAliases :
              PipedWithDirectCall(node', l) => reports' = reports

\* C3: once an import from '@angular/core/rxjs-interop' binding
\* (takeUntilDestroyed as L) was visited, every later subscribe call site of
\* the file whose pipe has a direct call L(...) gets no diagnostic: the import
\* puts L into the destroy aliases, L stays there for the rest of the file,
\* and a call site piped through L(...) while L is there reports nothing.
C3_AliasedDestroyOperatorRecognized == [][C3_Step]_vars

\* tud is known only as a destroy alias, the pipe's only matching argument is
\* tud(), and no diagnostic was reported
C3_Witness ==
    /\ AtPipedSubscribe
    /\ n_tud \in takeUntilDestroyedAliases
    /\ n_tud \notin rxjsTakeOperatorAliases
    /\ Len(PipeArgs) = 2
    /\ ~MatchesSomeRule(PipeArgs[1])
    /\ IsDirectCallOf(PipeArgs[2], {n_tud})
    /\ ~Reported

----------------------------------------------------------------------------
(* C4 *)

\* the call site n with every direct call l(...) of its pipe written e(...)
Renamed(n, l, e) ==
    SubscribeCall(
        PipeCall(n.callee.object.callee.object,
                 [i \in 1..Len(n.callee.object.arguments) |->
                     IF IsDirectCallOf(n.callee.object.arguments[i], {l})
                     THEN DirectCall(e)
                     ELSE n.callee.object.arguments[i]]),
        n.arguments)

FourTakeOperators == {n_takeUntil, n_takeWhile, n_take, n_takeLast}

C4_Step ==
    /\ (VisitStep /\ node'.type = "ImportDeclaration") =>
          \A e \in FourTakeOperators, l \in AnyName :
              (BindsAs(node', "rxjs", e, l) \/ BindsAs(node', "rxjs/operators", e, l))
                  => l \in rxjsTakeOperatorAliases'
    /\ SameFileStep =>
          \A l \in rxjsTakeOperatorAliases : l \in rxjsTakeOperatorAliases'
    /\ (VisitStep /\ node'.type = "CallExpression") =>
          \A l \in rxjsTakeOperatorAliases :
              PipedWithDirectCall(node', l) =>
                  \A e \in FourTakeOperators :
                      (reports' = reports) <=>
                          SubscribeReports(Renamed(node', l, e), ancestors', pos',
                              takeUntilDestroyedAliases, rxjsTakeOperatorAliases) = << >>

\* C4: once an import from 'rxjs' or 'rxjs/operators' binding (E as L), E one
\* of takeUntil, takeWhile, take, takeLast, was visited, a call site piped
\* through L(...) gets the verdict the same call site gets with E(...) in
\* place of L(...): the import puts L into the take aliases, L stays there
\* for the rest of the file, and while it is there both verdicts agree.
C4_AliasedTakeOperatorRecognizedLikeCanonical ==
    [][C4_Step]_vars

\* tud is known only as a take alias, the pipe's only matching argument is
\* tud(), and no diagnostic was reported
C4_Witness ==
    /\ AtPipedSubscribe
    /\ n_tud \in rxjsTakeOperatorAliases
    /\ n_tud \notin takeUntilDestroyedAliases
    /\ Len(PipeArgs) = 2
    /\ IsDirectCallOf(PipeArgs[1], {n_tud})
    /\ ~MatchesSomeRule(PipeArgs[2])
    /\ ~Reported

----------------------------------------------------------------------------
(* C5 *)

\* C5: when the last argument of the pipe call is a direct call of a name in
\* one of the alias sets, the call site gets no diagnostic, whatever the
\* arguments before it are.
C5_LastArgumentDirectCallSuppresses ==
    (AtPipedSubscribe /\ Len(PipeArgs) > 0 /\ IsDirectCallOf(PipeArgs[Len(PipeArgs)], AllAliases))
        => ~Reported

\* the last argument is takeWhile(...) and the ones before it match no rule
C5_Witness ==
    /\ AtPipedSubscribe
    /\ Len(PipeArgs) >= 2
    /\ IsDirectCallOf(PipeArgs[Len(PipeArgs)], {n_takeWhile})
    /\ \A i \in 1..(Len(PipeArgs) - 1) : ~MatchesSomeRule(PipeArgs[i])
    /\ ~Reported

----------------------------------------------------------------------------
(* C6 *)

\* C6: a pipe call with a bare-identifier argument whose name contains
\* "destroy", "unsubscribe" or "take" in any letter case, at any position,
\* gets no diagnostic.
C6_HintedIdentifierAnyCaseSuppresses ==
    (/\ AtPipedSubscribe
     /\ \E i \in 1..Len(PipeArgs) :
           /\ PipeArgs[i].type = "Identifier"
           /\ ContainsHintIgnoringCase(PipeArgs[i].name))
        => ~Reported

----------------------------------------------------------------------------
(* C7 *)

\* C7: when the only argument of the pipe call is a bare identifier whose
\* name contains none of "destroy", "unsubscribe", "take", the call site gets
\* a diagnostic in every alias state, also when that name is an alias.
C7_UnhintedIdentifierReported ==
    (/\ AtPipedSubscribe
     /\ Len(PipeArgs) = 1
     /\ PipeArgs[1].type = "Identifier"
     /\ ~ContainsHintIgnoringCase(PipeArgs[1].name))
        => Reported

\* pipe(mapValue) visited after mapValue was registered as an alias
C7_Witness ==
    /\ AtPipedSubscribe
    /\ PipeArgs = <<Identifier(n_mapValue)>>
    /\ n_mapValue \in AllAliases
    /\ Reported

----------------------------------------------------------------------------
(* C8 *)

\* C8: both alias sets hold their seed names from the start of the pass, so
\* a direct call of takeUntilDestroyed, takeUntil, takeWhile, take or takeLast
\* among the pipe arguments suppresses the diagnostic even when no import
\* declaration was visited.
C8_CanonicalNamesSuppressWithoutImport ==
    /\ n_takeUntilDestroyed \in takeUntilDestroyedAliases
    /\ {n_takeUntil, n_takeWhile, n_take, n_takeLast} \subseteq rxjsTakeOperatorAliases
    /\ (AtPipedSubscribe /\ \E i \in 1..Len(PipeArgs) : IsDirectCallOf(PipeArgs[i], CanonicalNames))
          => ~Reported

\* the first node of the file is a call site piped through takeLast(...) and
\* nothing else that could match
C8_Witness ==
    /\ pos = 1
    /\ AtPipedSubscribe
    /\ Len(PipeArgs) = 2
    /\ IsDirectCallOf(PipeArgs[1], {n_map})
    /\ IsDirectCallOf(PipeArgs[2], {n_takeLast})
    /\ ~Reported

----------------------------------------------------------------------------
(* C9 *)

InReturnStatement == \E i \in 1..Len(ancestors) : ancestors[i].type = "ReturnStatement"

InSubscribeCallback ==
    \E i \in 1..Len(ancestors) :
        /\ ancestors[i].type = "CallExpression"
        /\ ancestors[i].callee.type = "MemberExpression"
        /\ ancestors[i].callee.property.name = n_subscribe

\* C9: what encloses a call site does not change its evaluation: a subscribe
\* call without a pipe inside a return statement or inside the callback of
\* another subscribe call gets a diagnostic, and any enclosed call site gets
\* the verdict the visitor gives the same call site directly under the program.
C9_EnclosingNodesDoNotExempt ==
    (AtSubscribe /\ (InReturnStatement \/ InSubscribeCallback)) =>
        /\ ~IsPipeCall(Receiver) => Reported
        /\ Reported <=>
              SubscribeReports(node, <<Program>>, pos,
                  takeUntilDestroyedAliases, rxjsTakeOperatorAliases) # << >>

\* return this.observable.subscribe(...) was reported
C9_Witness ==
    /\ AtSubscribe
    /\ InReturnStatement
    /\ Receiver = Observable
    /\ Reported

----------------------------------------------------------------------------
(* C10 *)

C10_GrowStep ==
    SameFileStep =>
        /\ takeUntilDestroyedAliases \subseteq takeUntilDestroyedAliases'
        /\ rxjsTakeOperatorAliases \subseteq rxjsTakeOperatorAliases'

C10_SeedsKept ==
    /\ {n_takeUntilDestroyed} \subseteq takeUntilDestroyedAliases
    /\ {n_takeUntil, n_takeWhile, n_take, n_takeLast} \subseteq rxjsTakeOperatorAliases

\* C10: within one pass over a file the two alias sets only grow: every step
\* that stays in the file leaves each set a superset of what it was, and each
\* set keeps its seed names throughout.
C10_AliasSetsOnlyGrow == []C10_SeedsKept /\ [][C10_GrowStep]_vars

\* both sets have grown beyond their seeds and a call site was visited after
C10_Witness ==
    /\ AtSubscribe
    /\ n_tud \in takeUntilDestroyedAliases
    /\ n_mapValue \in rxjsTakeOperatorAliases

\* ---------------------------------------------------------------------------
\* C11: at the start of every file's pass both sets hold exactly their seed
\* names, a name enters a set only at an import of the current file that binds
\* it, and so a name L that only an earlier file registered is not recognized:
\* a first call site of a later file whose pipe holds only L() is reported.
LocalsOf(n) == {n.specifiers[i].local.name : i \in 1..Len(n.specifiers)}

C11_FreshAtStart ==
    pos = 0 =>
        /\ takeUntilDestroyedAliases = {n_takeUntilDestroyed}
        /\ rxjsTakeOperatorAliases = FourTakeOperators

C11_EarlierAliasReported ==
    (AtPipedSubscribe /\ pos = 1) =>
        \A l \in earlierAliases \ ({n_takeUntilDestroyed} \cup FourTakeOperators) :
            PipeArgs = <<DirectCall(l)>> => Reported

C11_EntryStep ==
    \A l \in AllAliases' \ AllAliases :
        /\ pos' # 0
        /\ node'.type = "ImportDeclaration"
        /\ l \in LocalsOf(node')

C11_AliasesDoNotOutliveFile ==
    /\ [](C11_FreshAtStart /\ C11_EarlierAliasReported)
    /\ [][C11_EntryStep]_vars

C11_Witness ==
    /\ AtPipedSubscribe
    /\ pos = 1
    /\ n_tud \in earlierAliases
    /\ PipeArgs = <<DirectCall(n_tud)>>
    /\ Reported

\* ---------------------------------------------------------------------------
\* C12: every visit of a subscribe call site appends at most one diagnostic,
\* located at that site (also when no pipe call was found), so no site ever
\* has two; and the diagnostics of the sites visited before stay as they
\* were, reported or withheld, whatever import or call site is visited later.
ReportsAt(l) == {i \in 1..Len(reports) : reports[i].loc = l}

C12_AtMostOnePerSite ==
    /\ \A i \in 1..Len(reports) : reports[i].loc \in 1..pos
    /\ \A l \in 1..pos : Cardinality(ReportsAt(l)) <= 1

C12_VerdictStep ==
    pos' # 0 =>
        /\ Len(reports') \in {Len(reports), Len(reports) + 1}
        /\ SubSeq(reports', 1, Len(reports)) = reports
        /\ Len(reports') = Len(reports) + 1 =>
              /\ VisitStep
              /\ node'.type = "CallExpression"
              /\ reports'[Len(reports')] = [loc |-> pos', messageId |-> "missingTakeUntilDestroyed"]

C12_OneFinalVerdictPerVisit ==
    /\ []C12_AtMostOnePerSite
    /\ [][C12_VerdictStep]_vars

\* a site without a pipe was reported once, the next site was passed, and an
\* import visited after both changed neither
C12_Witness ==
    /\ pos = 3
    /\ node.type = "ImportDeclaration"
    /\ n_tud \in takeUntilDestroyedAliases
    /\ reports = << [loc |-> 1, messageId |-> "missingTakeUntilDestroyed"] >>

\* ---------------------------------------------------------------------------
\* C13: classifying a call site reads the two alias sets and writes neither,
\* so putting the site just visited to the visitor once more, no import
\* having come between, gives the verdict it was given.
C13_SetsUntouchedStep ==
    (VisitStep /\ node'.type = "CallExpression") =>
        UNCHANGED <<takeUntilDestroyedAliases, rxjsTakeOperatorAliases>>

C13_SameVerdictAgain ==
    AtSubscribe =>
        (Reported <=>
            SubscribeReports(node, ancestors, pos, takeUntilDestroyedAliases,
                             rxjsTakeOperatorAliases) # << >>)

C13_ClassifierIsPure ==
    /\ []C13_SameVerdictAgain
    /\ [][C13_SetsUntouchedStep]_vars

\* two call sites in a row, both with pipe(map()), both reported
C13_Witness ==
    /\ AtPipedSubscribe
    /\ pos = 2
    /\ PipeArgs = <<DirectCall(n_map)>>
    /\ Len(reports) = 2
    /\ n_map \notin AllAliases

\* ---------------------------------------------------------------------------
\* Vocabulary of the claims about fixes.
\* the text a fix leaves: the characters before the edit's range, the edit's
\* text, the characters after the range
ApplyFix(sourceText, fix) ==
    SubSeq(sourceText, 1, fix.range[1]) \o fix.text
        \o SubSeq(sourceText, fix.range[2] + 1, Len(sourceText))

\* `.subscribe(...)` with its arguments, the end of the visited text
SubscribeText == <<".">> \o n_subscribe \o <<"(">> \o ArgumentsText(node.arguments) \o <<")">>

\* start and end of the receiver in the visited text
ReceiverSpan == <<Len(StatementPrefix(ancestors)), Len(text) - Len(SubscribeText)>>

StripSpace(s) == SelectSeq(s, LAMBDA c : c \notin {" ", "\n"})

PipeCallWithTakeUntilDestroyed ==
    PipeCall(Receiver.callee.object, PipeArgs \o <<DirectCall(n_takeUntilDestroyed)>>)

C15_FixAppendsOperatorToPipe ==
    (AtPipedSubscribe /\ Reported) =>
        /\ Len(fixes) = 1
        /\ LET fix == fixes[1]
               operator == <<"t","a","k","e","U","n","t","i","l","D","e","s","t","r","o","y","e","d","(",")">>
           IN /\ fix.range[1] = fix.range[2]
              /\ fix.range[1] = ReceiverSpan[2] - 1
              /\ text[ReceiverSpan[2]] = ")"
              /\ StripSpace(fix.text) =
                    (IF Len(PipeArgs) > 0 THEN <<",">> ELSE << >>) \o operator
              /\ StripSpace(ApplyFix(text, fix)) =
                    StripSpace(StatementPrefix(ancestors)
                        \o SourceText(SubscribeCall(PipeCallWithTakeUntilDestroyed,
                                                    node.arguments)))
              /\ Fixable_checkForTakeOperatorsInPipe(PipeCallWithTakeUntilDestroyed,
                    takeUntilDestroyedAliases, rxjsTakeOperatorAliases)

\* ---------------------------------------------------------------------------
\* C16: the locator looks at the receiver of .subscribe and no further: it
\* returns the receiver when that is a call of a member named pipe, and null
\* otherwise.  A pipe call one call deeper, although it holds a take operator,
\* does not keep the diagnostic away, and neither does a receiver that is a
\* plain variable.
\* the call the receiver's callee is a member of, as in <inner>.foo()
InnerCall == Receiver.callee.object

HasDeeperTerminatedPipe ==
    /\ Receiver.type = "CallExpression"
    /\ Receiver.callee.type = "MemberExpression"
    /\ IsPipeCall(InnerCall)
    /\ \E i \in 1..Len(InnerCall.arguments) : MatchesSomeRule(InnerCall.arguments[i])

C16_LocatorLooksOneHop ==
    AtSubscribe =>
        /\ findPipeCallBeforeSubscribe(Receiver) =
              (IF IsPipeCall(Receiver) THEN Receiver ELSE [type |-> "null"])
        /\ (/\ HasDeeperTerminatedPipe
            /\ IsPipeCall(Receiver) =>
                  \A i \in 1..Len(PipeArgs) : ~MatchesSomeRule(PipeArgs[i]))
              => Reported
        /\ Receiver.type = "Identifier" => Reported

\* this.observable.pipe(take()).foo().subscribe() is reported
C16_Witness ==
    /\ AtSubscribe
    /\ HasDeeperTerminatedPipe
    /\ ~IsPipeCall(Receiver)
    /\ Receiver.callee.property.name = n_foo
    /\ Reported

\* ---------------------------------------------------------------------------
\* C17: a pipe argument of the form obj.name(...) counts as a termination
\* operator exactly when name is in one of the two alias sets, whatever obj
\* is: a call site whose pipe arguments are all of that form is reported if
\* and only if none of the property names is an alias.
IsMemberCall(a) == a.type = "CallExpression" /\ a.callee.type = "MemberExpression"

C17_MemberCallCountsByPropertyName ==
    (/\ AtPipedSubscribe
     /\ Len(PipeArgs) > 0
     /\ \A i \in 1..Len(PipeArgs) : IsMemberCall(PipeArgs[i]))
        => (Reported <=>
               \A i \in 1..Len(PipeArgs) : PipeArgs[i].callee.property.name \notin AllAliases)

\* pipe(foo.map(), this.tud()) after tud became an alias: not reported
C17_Witness ==
    /\ AtPipedSubscribe
    /\ Len(PipeArgs) = 2
    /\ IsMemberCall(PipeArgs[1]) /\ PipeArgs[1].callee.property.name = n_map
    /\ IsMemberCall(PipeArgs[2]) /\ PipeArgs[2].callee.property.name = n_tud
    /\ PipeArgs[2].callee.object.type = "ThisExpression"
    /\ n_tud \in takeUntilDestroyedAliases
    /\ ~Reported

\* ---------------------------------------------------------------------------
\* C18: the visit of an import declaration adds to the destroy aliases the
\* local names bound to takeUntilDestroyed by a named import from
\* '@angular/core/rxjs-interop', adds to the take aliases the local names
\* bound to one of the four take operators by a named import from 'rxjs' or
\* 'rxjs/operators', and changes nothing else: any other import (another
\* module, a take operator from the interop path, takeUntilDestroyed from
\* 'rxjs', a default or a namespace import) leaves both sets and the reports
\* as they were.
C18_ImportStep ==
    (VisitStep /\ node'.type = "ImportDeclaration") =>
        /\ takeUntilDestroyedAliases' = takeUntilDestroyedAliases \cup
              {l \in AnyName :
                  BindsAs(node', "@angular/core/rxjs-interop", n_takeUntilDestroyed, l)}
        /\ rxjsTakeOperatorAliases' = rxjsTakeOperatorAliases \cup
              {l \in AnyName :
                  \E src \in {"rxjs", "rxjs/operators"}, e \in FourTakeOperators :
                      BindsAs(node', src, e, l)}
        /\ reports' = reports

C18_OnlyMatchingImportsChangeSets == [][C18_ImportStep]_vars

\* the first node of the file imports (take as mapValue) from the interop
\* path and neither set has changed
C18_Witness ==
    /\ pos = 1
    /\ BindsAs(node, "@angular/core/rxjs-interop", n_take, n_mapValue)
    /\ takeUntilDestroyedAliases = {n_takeUntilDestroyed}
    /\ rxjsTakeOperatorAliases = FourTakeOperators

\* ---------------------------------------------------------------------------
\* C19: the verdict does not depend on the order of the pipe's arguments: the
\* classifier gives every rearrangement of the arguments of the visited call
\* site the verdict the site got, so an argument that matches counts at any
\* position, also before or after bare identifiers the name test rejects.
Rearranged(arguments, p) == [i \in 1..Len(arguments) |-> arguments[p[i]]]

\* the orders k arguments can be put in
ArgumentOrders == [k \in 0..MaxArgs |-> Permutations(1..k)]

PresentPipeCall(e) ==
    /\ e # [type |-> "null"]
    /\ e.type = "CallExpression"
    /\ "callee" \in DOMAIN e
    /\ e.callee.type = "MemberExpression"
    /\ "property" \in DOMAIN e.callee
    /\ e.callee.property.name = n_pipe

PresentMatch(a) ==
    \/ /\ a.type = "CallExpression"
       /\ "callee" \in DOMAIN a
       /\ \/ a.callee.type = "Identifier" /\ a.callee.name \in AllAliases
          \/ /\ a.callee.type = "MemberExpression"
             /\ "property" \in DOMAIN a.callee
             /\ a.callee.property.name \in AllAliases
    \/ a.type = "Identifier" /\ IdentifierNameHint(a.name)

C20_GuardsAnswerForPartialNodes ==
    AtSubscribe =>
        /\ ~PresentPipeCall(Receiver) =>
              findPipeCallBeforeSubscribe(Receiver) = [type |-> "null"]
        /\ (PresentPipeCall(Receiver) /\ "arguments" \notin DOMAIN Receiver) =>
              ~checkForTakeOperatorsInPipe(Receiver, takeUntilDestroyedAliases,
                                           rxjsTakeOperatorAliases)
        /\ Cardinality(ReportsAt(pos)) <= 1
        /\ Reported <=>
              ~(/\ PresentPipeCall(Receiver)
                /\ "arguments" \in DOMAIN Receiver
                /\ \E i \in 1..Len(Receiver.arguments) : PresentMatch(Receiver.arguments[i]))

\* a pipe whose arguments are a call without a callee and a call of a member
\* without a property was classified and reported
C20_Witness ==
    /\ AtSubscribe
    /\ PresentPipeCall(Receiver)
    /\ "arguments" \in DOMAIN Receiver
    /\ Receiver.arguments = <<CalleelessCall, CallExpression(PropertylessMember, << >>)>>
    /\ Reported

\* ---------------------------------------------------------------------------
\* C21: the verdict of a call site is fixed by the imports visited before it.
\* A call site whose pipe holds only direct calls L(...), L neither a seed
\* name nor a hinted name, is reported exactly when no import visited so far
\* has made L an alias; and an import visited afterwards, whatever it
\* registers, leaves the reports made so far as they are.  So the site before
\* the import (X as L) is reported and the same site after it is not.
PipedOnlyThrough(n, l) ==
    /\ n.type = "CallExpression"
    /\ IsPipeCall(n.callee.object)
    /\ Len(n.callee.object.arguments) > 0
    /\ \A i \in 1..Len(n.callee.object.arguments) :
          IsDirectCallOf(n.callee.object.arguments[i], {l})

C21_Step ==
    /\ (VisitStep /\ node'.type = "CallExpression") =>
          \A l \in Locals :
              PipedOnlyThrough(node', l) =>
                  IF l \in AllAliases
                  THEN reports' = reports
                  ELSE /\ Len(reports') = Len(reports) + 1
                       /\ reports'[Len(reports')].loc = pos'
    /\ (VisitStep /\ node'.type = "ImportDeclaration") => reports' = reports

C21_VerdictFollowsEarlierImports == [][C21_Step]_vars

\* a reported call site, then the import that makes tud an alias, then
\* pipe(tud()), not reported; the first report stands
C21_Witness ==
    /\ pos = 3
    /\ AtPipedSubscribe
    /\ PipeArgs = <<DirectCall(n_tud)>>
    /\ n_tud \in takeUntilDestroyedAliases
    /\ Len(reports) = 1
    /\ reports[1].loc = 1

\* ---------------------------------------------------------------------------
\* C22: the name test is put to bare identifiers only.  A pipe argument that
\* is a call name(...) with "destroy", "unsubscribe" or "take" in the name
\* but the name in neither alias set, or a member access that is not called,
\* does not count: a call site whose pipe holds only such arguments is
\* reported, and the classifier of the fixable copy gives the same answer.
IsHintedCallOutsideAliases(a) ==
    /\ a.type = "CallExpression"
    /\ a.callee.type = "Identifier"
    /\ ContainsHintIgnoringCase(a.callee.name)
    /\ a.callee.name \notin AllAliases

IsHintedMemberAccess(a) ==
    a.type = "MemberExpression" /\ ContainsHintIgnoringCase(a.property.name)

C22_NameTestOnlyForBareIdentifiers ==
    (/\ AtPipedSubscribe
     /\ Len(PipeArgs) > 0
     /\ \A i \in 1..Len(PipeArgs) :
           IsHintedCallOutsideAliases(PipeArgs[i]) \/ IsHintedMemberAccess(PipeArgs[i]))
        => /\ Reported
           /\ ~Fixable_checkForTakeOperatorsInPipe(Receiver, takeUntilDestroyedAliases,
                                                   rxjsTakeOperatorAliases)

\* pipe(destroyHelper(), this.destroy$) is reported
C22_Witness ==
    /\ AtPipedSubscribe
    /\ PipeArgs = <<DirectCall(n_destroyHelper), MemberExpression(ThisExpression, n_destroy_)>>
    /\ Reported

====
